---- MODULE Spec2Model ----
(***************************************************************************)
(* voici/tree_exporter.py: the recursive tree export.                      *)
(*                                                                         *)
(* Encoding of strings and paths.  A file name is the sequence of its      *)
(* dot-separated components: <<"n","ipynb">> is "n.ipynb", <<"a">> is "a", *)
(* <<"">> is the empty string.  A path is a sequence of names; <<>> is     *)
(* Path('.').  The filesystem is rooted at the process's working           *)
(* directory, so a path is also what open() resolves a relative path to.   *)
(* The components of the names of NameSet are atoms, none a prefix of      *)
(* another, so the component-wise order NameLess is Python's str order.    *)
(***************************************************************************)
EXTENDS Integers, Sequences, FiniteSets, TLC

\* ----------------------------------------------------------------- bounds
MaxEntries == 3      \* entries of the filesystem below the working directory
MaxDepth == 2        \* depth of the filesystem below the working directory
MaxSegments == 4     \* longest path given to the navigation functions alone
MaxMods == 1         \* changes made to the filesystem while an export runs

\* ------------------------------------------------------------------ names
\* The names the environment may create: a plain directory name, a name with
\* a dot, a notebook, a notebook whose stem ends in .html, an ignorable file.
NameSet ==
    { <<"a">>, <<"a", "b">>, <<"n", "ipynb">>, <<"n", "html", "ipynb">>,
      <<"b", "txt">> }

\* The paths the caller may pass as the export root.
RootArgs == { <<>>, << <<"a">> >>, << <<"n", "ipynb">> >> }

\* The segments of the paths given to the navigation functions alone.
NavNames == { <<"a">>, <<"b">>, <<"a b">> }

VARIABLES
    fs,          \* the filesystem: path -> "dir" | "file" | "badfile"
    phase,       \* "setup" | "suspended" | "running" | "done" | "failed"
    root,        \* the path the caller passed to generate_contents
    stack,       \* the generator frames of generate_contents, outermost first
    out,         \* the artifacts yielded to the caller so far, in order
    listed,      \* the directories whose entries iterdir() has listed so far
    handles,     \* the paths of the file handles that are open
    exc,         \* the exception that reached the caller ("" when none)
    nav,         \* the navigation functions alone: argument and results
    mods,        \* the changes made to the filesystem between pulls, in order
    reads        \* the notebook paths opened for reading so far, in order

vars == <<fs, phase, root, stack, out, listed, handles, exc, nav, mods, reads>>

\* ------------------------------------------------------- pathlib and str
Last(s) == s[Len(s)]
Front(s) == SubSeq(s, 1, Len(s) - 1)

\* PurePath.suffix: the text from the last dot, when that dot is neither the
\* first nor the last character of the name.
HasSuffix(name) ==
    /\ Len(name) > 1
    /\ name[Len(name)] # ""
    /\ ~(Len(name) = 2 /\ name[1] = "")

Suffix(name) == IF HasSuffix(name) THEN name[Len(name)] ELSE ""

\* PurePath.stem of a name: the name without its suffix.
StemOfName(name) == IF HasSuffix(name) THEN Front(name) ELSE name

\* path.stem: the stem of the final component; '' for Path('.').
Stem(path) == IF path = <<>> THEN <<"">> ELSE StemOfName(Last(path))

\* path.parent; the parent of Path('.') is Path('.').
Parent(path) == IF path = <<>> THEN <<>> ELSE Front(path)

\* path.relative_to(other), for other a prefix of path (it always is here).
RelativeTo(path, other) == SubSeq(path, Len(other) + 1, Len(path))

IsPrefix(p, q) == Len(p) <= Len(q) /\ SubSeq(q, 1, Len(p)) = p

\* Python's order on the characters that start the components.
CompRank(c) ==
    CASE c = "" -> 0
      [] c = "a" -> 1
      [] c = "b" -> 2
      [] c = "html" -> 3
      [] c = "ipynb" -> 4
      [] c = "n" -> 5
      [] c = "txt" -> 6

\* str.__lt__ on two names ('.' sorts before every letter, and a proper
\* prefix before its extensions).
RECURSIVE NameLess(_, _)
NameLess(m, n) ==
    IF m = <<>> THEN n # <<>>
    ELSE IF n = <<>> THEN FALSE
    ELSE IF m[1] = n[1] THEN NameLess(Tail(m), Tail(n))
    ELSE CompRank(m[1]) < CompRank(n[1])

\* ------------------------------------------------------------- filesystem
is_dir(path) == path \in DOMAIN fs /\ fs[path] = "dir"
is_file(path) == path \in DOMAIN fs /\ fs[path] # "dir"

Entries(path) == { q \in DOMAIN fs : Len(q) = Len(path) + 1 /\ IsPrefix(path, q) }

\* All sequences that hold each element of S once.
Perms(S) ==
    { s \in [1..Cardinality(S) -> S] : \A x \in S : \E i \in DOMAIN s : s[i] = x }

\* path.iterdir(): the entries of the directory, in an order the filesystem
\* chooses.
iterdir(path) == Perms(Entries(path))

\* ------------------------------------------------------------ content model
NoneVal == [type |-> "none"]
Raised(e) == [type |-> "raise", exc |-> e]

\* sorted(content, key=lambda i: i['name']): a stable sort, so entries with
\* equal names keep the order iterdir() gave them.
\* The entry put at the end whatever its name.
InsertByName_append(x, s) == Append(s, x)

InsertByName(x, s) ==
    LET k == Cardinality({ i \in 1..Len(s) : ~NameLess(x.name, s[i].name) })
    IN  SubSeq(s, 1, k) \o <<x>> \o SubSeq(s, k + 1, Len(s))

\* The sort left out: the entries in the order iterdir() gave them.
sorted_unsorted(content) == content

RECURSIVE sorted(_)
sorted(content) ==
    IF content = <<>> THEN <<>>
    ELSE InsertByName(Last(content), sorted(Front(content)))

\* The notebook branch of path_to_content.
NotebookNode(path, relative_to) ==
    LET actual_filename == StemOfName(Last(path)) \o <<"html">>
    IN  [ type |-> "notebook",
          name |-> actual_filename,
          path |-> Parent(RelativeTo(path, relative_to)) \o <<actual_filename>> ]

\* The directory branch of path_to_content for one enumeration order of the
\* entries and one result per entry: the comprehension evaluates the entries
\* in order and stops at the first that raises; sorted() then raises TypeError
\* on a None element (the comprehension's filter tests subitem, never the
\* result, so None results stay in the list).
DirectoryNode(path, relative_to, order, sub) ==
    LET n == Len(order)
        results == [ i \in 1..n |-> sub[order[i]] ]
        raising == { i \in 1..n : results[i].ret.type = "raise" }
        first == CHOOSE i \in raising : \A j \in raising : i <= j
        content == [ i \in 1..n |-> results[i].ret ]
        all == {path} \cup UNION { results[i].listed : i \in 1..n }
    IN  IF raising # {}
        THEN [ ret |-> results[first].ret,
               listed |-> {path} \cup UNION { results[i].listed : i \in 1..first } ]
        ELSE IF \E i \in 1..n : content[i].type = "none"
        THEN [ ret |-> Raised("TypeError"), listed |-> all ]
        ELSE [ ret |-> [ type |-> "directory",
                         name |-> Stem(path),
                         path |-> RelativeTo(path, relative_to),
                         content |-> sorted(content) ],
               listed |-> all ]

\* A classifier that does not descend: a subdirectory becomes a directory
\* node without its entries being listed.
path_to_content_shallow(path, relative_to) ==
    LET leaf(q) ==
            IF is_dir(q) THEN
                [ ret |-> [ type |-> "directory", name |-> Stem(q),
                            path |-> RelativeTo(q, relative_to), content |-> <<>> ],
                  listed |-> {} ]
            ELSE IF is_file(q) /\ Suffix(Last(q)) = "ipynb" THEN
                [ ret |-> NotebookNode(q, relative_to), listed |-> {} ]
            ELSE [ ret |-> NoneVal, listed |-> {} ]
    IN  IF is_dir(path) THEN
            { DirectoryNode(path, relative_to, order,
                            [ q \in Entries(path) |-> leaf(q) ]) :
                order \in iterdir(path) }
        ELSE { leaf(path) }

\* path_to_content(path, relative_to): the set of its possible outcomes over
\* the enumeration orders of iterdir().  An outcome is the value returned (a
\* node, NoneVal, or the exception raised) with the directories it listed.
RECURSIVE path_to_content(_, _)
path_to_content(path, relative_to) ==
    IF is_dir(path) THEN
        LET subs == [ q \in Entries(path) |-> path_to_content(q, relative_to) ]
            choices == { f \in [Entries(path) -> UNION { subs[q] : q \in Entries(path) }] :
                            \A q \in Entries(path) : f[q] \in subs[q] }
        IN  { DirectoryNode(path, relative_to, order, f) :
                order \in iterdir(path), f \in choices }
    ELSE IF is_file(path) /\ Suffix(Last(path)) = "ipynb" THEN
        { [ ret |-> NotebookNode(path, relative_to), listed |-> {} ] }
    ELSE
        { [ ret |-> NoneVal, listed |-> {} ] }


\* -------------------------------------------------------------- navigation
TitleMaxParts == 3
TitleKeep == 2

\* str(path).split('/'): the segments; the empty string splits to [''].
Split(path) == IF path = <<>> THEN << <<"">> >> ELSE path

\* url_path_join(*pieces) for pieces without slashes: the non-empty pieces,
\* joined by '/'.  The joined string is kept as the sequence of its segments.
NonEmpty(piece) == piece # <<"">>
url_path_join(pieces) == SelectSeq(pieces, NonEmpty)

\* urllib's quote on one component: the space is the only character of the
\* components used here that is not safe.
Quote(c) == IF c = "a b" THEN "a%20b" ELSE c

\* url_escape(path): every segment quoted, the slashes kept.
url_escape(joined) ==
    [ k \in 1..Len(joined) |-> [ j \in 1..Len(joined[k]) |-> Quote(joined[k][j]) ] ]

\* A link: url_path_join(base_url, 'voila/tree', rest).
TreeLink(rest) == << <<"base_url">>, <<"voila">>, <<"tree">> >> \o rest

\* The link joined from the segments before the entry's own (parts[:i]).
generate_breadcrumbs_short_link(path) ==
    LET parts == Split(path)
        crumb(i) == [ link |-> TreeLink(url_escape(url_path_join(SubSeq(parts, 1, i - 1)))),
                      label |-> parts[i] ]
        RECURSIVE loop(_)
        loop(i) == IF i = 0 THEN << [ link |-> TreeLink(<<>>), label |-> <<"">> ] >>
                   ELSE IF NonEmpty(parts[i]) THEN Append(loop(i - 1), crumb(i))
                   ELSE loop(i - 1)
    IN  loop(Len(parts))

generate_breadcrumbs(path) ==
    LET parts == Split(path)
        crumb(i) == [ link |-> TreeLink(url_escape(url_path_join(SubSeq(parts, 1, i)))),
                      label |-> parts[i] ]
        RECURSIVE loop(_)
        loop(i) == IF i = 0 THEN << [ link |-> TreeLink(<<>>), label |-> <<"">> ] >>
                   ELSE IF NonEmpty(parts[i]) THEN Append(loop(i - 1), crumb(i))
                   ELSE loop(i - 1)
    IN  loop(Len(parts))

Home == [ text |-> << <<"Voici Home">> >>, slash |-> FALSE ]

\* The title cut to its last TitleKeep segments as soon as it has more.
generate_page_title_cut_early(path) ==
    LET parts == Split(path)
        kept == IF Len(parts) > TitleKeep
                THEN SubSeq(parts, Len(parts) - TitleKeep + 1, Len(parts))
                ELSE parts
        page_title == url_path_join(kept)
    IN  IF page_title # <<>> THEN [ text |-> page_title, slash |-> TRUE ] ELSE Home

generate_page_title(path) ==
    LET parts == Split(path)
        kept == IF Len(parts) > TitleMaxParts
                THEN SubSeq(parts, Len(parts) - TitleKeep + 1, Len(parts))
                ELSE parts
        page_title == url_path_join(kept)
    IN  IF page_title # <<>> THEN [ text |-> page_title, slash |-> TRUE ] ELSE Home

\* ------------------------------------------------------------------ driver
\* A frame of generate_contents.  pc is the line the frame stands at:
\*   "start"  created, its body not yet run
\*   "index"  suspended at the yield of the index page
\*   "opened" inside the with block, the notebook file open
\*   "read"   past the with block, about to render
\*   "render" suspended at the yield of the rendered notebook
\*   "sub"    at the yield that hands on an artifact of the recursive call
\*   "loop"   at the head of the for loop, the recursive call exhausted
\* top says that relative_to was None; i is the index of the child the loop
\* took last.
NewFrame(path, top, relative_to) ==
    [ path |-> path, top |-> top, relative_to |-> relative_to,
      relative_path |-> <<>>, contents |-> NoneVal, i |-> 0, pc |-> "start",
      notebook_path |-> <<>> ]


Top == stack[Len(stack)]
SetTop(frame) == [stack EXCEPT ![Len(stack)] = frame]

\* file['path'].replace('.html', '.ipynb'): every component "html" that
\* follows a dot becomes "ipynb", in every segment of the path.
ReplaceHtml(path) ==
    [ k \in 1..Len(path) |->
        [ j \in 1..Len(path[k]) |->
            IF j > 1 /\ path[k][j] = "html" THEN "ipynb" ELSE path[k][j] ] ]

IndexArtifact(relative_path, contents, breadcrumbs, page_title) ==
    [ kind |-> "index",
      path |-> << <<"tree">> >> \o relative_path \o << <<"index", "html">> >>,
      contents |-> contents, breadcrumbs |-> breadcrumbs,
      page_title |-> page_title, src |-> <<>> ]

RenderArtifact(file, notebook_path) ==
    [ kind |-> "render",
      path |-> << <<"render">> >> \o file.path,
      contents |-> NoneVal, breadcrumbs |-> <<>>, page_title |-> Home,
      src |-> notebook_path ]

\* The exception caught in the frame that raised it, which goes on with the
\* next child.
Throw_swallowed(e) ==
    /\ phase' = phase
    /\ exc' = exc
    /\ stack' = SetTop([Top EXCEPT !.pc = "loop"])

\* An exception raised in any frame: no frame of generate_contents has a
\* handler, so it unwinds every frame and reaches the caller's next().
Throw(e) ==
    /\ phase' = "failed"
    /\ exc' = e
    /\ stack' = <<>>

\* The environment builds the filesystem before the export starts.
CanCreate(p) ==
    /\ p \notin DOMAIN fs
    /\ Len(p) >= 1 /\ Len(p) <= MaxDepth
    /\ Last(p) \in NameSet
    /\ is_dir(Parent(p))
    /\ Cardinality(DOMAIN fs) - 1 < MaxEntries

Paths == UNION { [1..d -> NameSet] : d \in 1..MaxDepth }

Mkdir(p) ==
    /\ phase = "setup"
    /\ CanCreate(p)
    /\ fs' = (p :> "dir") @@ fs
    /\ UNCHANGED <<phase, root, stack, out, listed, handles, exc, nav, mods, reads>>

\* A file; a file named *.ipynb may hold a notebook that cannot be read or
\* rendered ("badfile").
Touch(p, k) ==
    /\ phase = "setup"
    /\ CanCreate(p)
    /\ k = "badfile" => Suffix(Last(p)) = "ipynb"
    /\ fs' = (p :> k) @@ fs
    /\ UNCHANGED <<phase, root, stack, out, listed, handles, exc, nav, mods, reads>>

\* The caller calls generate_contents(path): the generator is created and no
\* line of its body has run.
Start(path) ==
    /\ phase = "setup"
    /\ phase' = "suspended"
    /\ root' = path
    /\ stack' = << NewFrame(path, TRUE, <<>>) >>
    /\ UNCHANGED <<fs, out, listed, handles, exc, nav, mods, reads>>

\* The caller pulls the next artifact: next() resumes the innermost frame.
Pull ==
    /\ phase = "suspended"
    /\ phase' = "running"
    /\ UNCHANGED <<fs, root, stack, out, listed, handles, exc, nav, mods, reads>>

\* Lines 90-109 of a frame, up to the yield of the index page.  The
\* template engine is an external collaborator taken to render any contents.
\* A directory without entries classified as nothing.
Classified_empty_is_nothing(f) ==
    IF Entries(f.path) = {}
    THEN { [ ret |-> NoneVal, listed |-> {} ] }
    ELSE path_to_content(f.path, IF f.top THEN f.path ELSE f.relative_to)

Classified(f) ==
    path_to_content(f.path, IF f.top THEN f.path ELSE f.relative_to)

YieldIndex ==
    /\ phase = "running" /\ Top.pc = "start"
    /\ \E r \in Classified(Top) :
        /\ r.ret.type # "raise"
        /\ LET relative_to == IF Top.top THEN Top.path ELSE Top.relative_to
               relative_path == IF Top.top THEN <<>>
                                ELSE RelativeTo(Top.path, Top.relative_to)
           IN  /\ stack' = SetTop([Top EXCEPT !.relative_to = relative_to,
                                              !.relative_path = relative_path,
                                              !.contents = r.ret,
                                              !.pc = "index"])
               /\ out' = Append(out, IndexArtifact(relative_path, r.ret,
                                        generate_breadcrumbs(Top.path),
                                        generate_page_title(Top.path)))
        /\ listed' = listed \cup r.listed
    /\ phase' = "suspended"
    /\ UNCHANGED <<fs, root, handles, exc, nav, mods, reads>>

\* path_to_content raises (line 102): nothing is yielded.
ClassifyFail ==
    /\ phase = "running" /\ Top.pc = "start"
    /\ \E r \in Classified(Top) :
        /\ r.ret.type = "raise"
        /\ listed' = listed \cup r.listed
        /\ Throw(r.ret.exc)
    /\ UNCHANGED <<fs, root, out, handles, nav, mods, reads>>

\* Line 111 after the index page when contents is no directory node:
\* contents['content'] raises TypeError on None, KeyError on a notebook node.
LoopFail ==
    /\ phase = "running" /\ Top.pc = "index"
    /\ Top.contents.type # "directory"
    /\ Throw(IF Top.contents.type = "none" THEN "TypeError" ELSE "KeyError")
    /\ UNCHANGED <<fs, root, out, listed, handles, nav, mods, reads>>

AtLoopHead ==
    /\ phase = "running"
    /\ Top.pc \in {"index", "render", "loop"}
    /\ Top.contents.type = "directory"

\* The for loop is exhausted: the frame returns.  The outermost frame ends
\* the sequence; an inner one resumes its caller's loop.
FrameReturn ==
    /\ AtLoopHead
    /\ Top.i = Len(Top.contents.content)
    /\ IF Len(stack) = 1
       THEN /\ stack' = <<>>
            /\ phase' = "done"
       ELSE /\ stack' = [Front(stack) EXCEPT ![Len(stack) - 1].pc = "loop"]
            /\ phase' = phase
    /\ UNCHANGED <<fs, root, out, listed, handles, exc, nav, mods, reads>>

NextFile == Top.contents.content[Top.i + 1]

\* Every notebook child still to come opened and read ahead of its turn.
OpenNotebook_eager ==
    /\ AtLoopHead
    /\ Top.i < Len(Top.contents.content)
    /\ NextFile.type = "notebook"
    /\ LET notebook_path == ReplaceHtml(NextFile.path)
           rest == SubSeq(Top.contents.content, Top.i + 1, Len(Top.contents.content))
       IN  /\ is_file(notebook_path)
           /\ stack' = SetTop([Top EXCEPT !.i = @ + 1, !.pc = "opened",
                                          !.notebook_path = notebook_path])
           /\ handles' = handles \cup {notebook_path}
           /\ reads' = reads \o [ j \in 1..Len(rest) |-> ReplaceHtml(rest[j].path) ]
    /\ UNCHANGED <<fs, root, phase, out, listed, exc, nav, mods>>

\* Lines 112-117: the next child is a notebook and open() succeeds.
OpenNotebook ==
    /\ AtLoopHead
    /\ Top.i < Len(Top.contents.content)
    /\ NextFile.type = "notebook"
    /\ LET notebook_path == ReplaceHtml(NextFile.path)
       IN  /\ is_file(notebook_path)
           /\ stack' = SetTop([Top EXCEPT !.i = @ + 1, !.pc = "opened",
                                          !.notebook_path = notebook_path])
           /\ handles' = handles \cup {notebook_path}
           /\ reads' = Append(reads, notebook_path)
    /\ UNCHANGED <<fs, root, phase, out, listed, exc, nav, mods>>

\* Line 117: open() raises (no such file, or a directory).
OpenFail ==
    /\ AtLoopHead
    /\ Top.i < Len(Top.contents.content)
    /\ NextFile.type = "notebook"
    /\ LET notebook_path == ReplaceHtml(NextFile.path)
       IN  /\ ~is_file(notebook_path)
           /\ Throw(IF is_dir(notebook_path) THEN "IsADirectoryError"
                    ELSE "FileNotFoundError")
    /\ UNCHANGED <<fs, root, out, listed, handles, nav, mods, reads>>

\* Lines 118-125: nbformat.read succeeds and the with block closes the file.
ReadNotebook ==
    /\ phase = "running" /\ Top.pc = "opened"
    /\ stack' = SetTop([Top EXCEPT !.pc = "read"])
    /\ handles' = handles \ {Top.notebook_path}
    /\ UNCHANGED <<fs, root, phase, out, listed, exc, nav, mods, reads>>

\* nbformat.read raises and the file opened at line 117 stays open.
ReadFail_leak ==
    /\ phase = "running" /\ Top.pc = "opened"
    /\ fs[Top.notebook_path] = "badfile"
    /\ handles' = handles
    /\ Throw("ReadError")
    /\ UNCHANGED <<fs, root, out, listed, nav, mods, reads>>

\* Line 118: nbformat.read raises; the with block closes the file on the way.
ReadFail ==
    /\ phase = "running" /\ Top.pc = "opened"
    /\ fs[Top.notebook_path] = "badfile"
    /\ handles' = handles \ {Top.notebook_path}
    /\ Throw("ReadError")
    /\ UNCHANGED <<fs, root, out, listed, nav, mods, reads>>

\* Lines 127-136: the exporter renders notebook_path and the frame yields.
YieldRender ==
    /\ phase = "running" /\ Top.pc = "read"
    /\ is_file(Top.notebook_path) /\ fs[Top.notebook_path] = "file"
    /\ out' = Append(out, RenderArtifact(Top.contents.content[Top.i],
                                         Top.notebook_path))
    /\ stack' = SetTop([Top EXCEPT !.pc = "render"])
    /\ phase' = "suspended"
    /\ UNCHANGED <<fs, root, listed, handles, exc, nav, mods, reads>>

\* Line 135: from_filename raises.
RenderFail ==
    /\ phase = "running" /\ Top.pc = "read"
    /\ ~(is_file(Top.notebook_path) /\ fs[Top.notebook_path] = "file")
    /\ Throw("RenderError")
    /\ UNCHANGED <<fs, root, out, listed, handles, nav, mods, reads>>

\* Lines 137-139: the next child is a directory: a new generator for
\* Path(path) / file['name'], whose body starts on this same pull.
Recurse ==
    /\ AtLoopHead
    /\ Top.i < Len(Top.contents.content)
    /\ NextFile.type = "directory"
    /\ stack' = Append(SetTop([Top EXCEPT !.i = @ + 1, !.pc = "sub"]),
                       NewFrame(Top.path \o <<NextFile.name>>, FALSE,
                                Top.relative_to))
    /\ UNCHANGED <<fs, root, phase, out, listed, handles, exc, nav, mods, reads>>

\* ----------------------------------------------------------- specification
NoTitle == [ text |-> <<>>, slash |-> FALSE ]
NavIdle == [ arg |-> <<>>, page_title |-> NoTitle, breadcrumbs |-> <<>> ]

Init ==
    /\ fs = (<<>> :> "dir")
    /\ phase = "setup"
    /\ root = <<>>
    /\ stack = <<>>
    /\ out = <<>>
    /\ listed = {}
    /\ handles = {}
    /\ exc = ""
    /\ nav = NavIdle
    /\ mods = <<>>
    /\ reads = <<>>

Next ==
    \/ \E p \in Paths : Mkdir(p)
    \/ \E p \in Paths, k \in {"file", "badfile"} : Touch(p, k)
    \/ \E path \in RootArgs : Start(path)
    \/ Pull
    \/ YieldIndex
    \/ ClassifyFail
    \/ LoopFail
    \/ FrameReturn
    \/ OpenNotebook
    \/ OpenFail
    \/ ReadNotebook
    \/ ReadFail
    \/ YieldRender
    \/ RenderFail
    \/ Recurse

Spec == Init /\ [][Next]_vars

\* The navigation functions on their own, for every path of at most
\* MaxSegments segments.
NavPaths == UNION { [1..d -> NavNames] : d \in 0..MaxSegments }

InitNav ==
    /\ fs = (<<>> :> "dir")
    /\ phase = "setup"
    /\ root = <<>>
    /\ stack = <<>>
    /\ out = <<>>
    /\ listed = {}
    /\ handles = {}
    /\ exc = ""
    /\ nav \in { [ arg |-> p, page_title |-> NoTitle, breadcrumbs |-> <<>> ] :
                    p \in NavPaths }
    /\ mods = <<>>
    /\ reads = <<>>

CallPageTitle ==
    /\ nav.page_title = NoTitle
    /\ nav' = [nav EXCEPT !.page_title = generate_page_title(nav.arg)]
    /\ UNCHANGED <<fs, phase, root, stack, out, listed, handles, exc, mods, reads>>

CallBreadcrumbs ==
    /\ nav.breadcrumbs = <<>>
    /\ nav' = [nav EXCEPT !.breadcrumbs = generate_breadcrumbs(nav.arg)]
    /\ UNCHANGED <<fs, phase, root, stack, out, listed, handles, exc, mods, reads>>

NextNav == CallPageTitle \/ CallBreadcrumbs

SpecNav == InitNav /\ [][NextNav]_vars

\* The export with a filesystem that changes under it.  The generator runs
\* only inside the caller's next(), so another process can change the tree
\* while the generator is suspended at a yield: it removes an entry with all
\* that is below it, or creates a directory or a file.
BetweenPulls == phase = "suspended" /\ out # <<>> /\ Len(mods) < MaxMods

ConcRemove(p) ==
    /\ BetweenPulls
    /\ p \in DOMAIN fs /\ p # <<>>
    /\ fs' = [ q \in { q \in DOMAIN fs : ~IsPrefix(p, q) } |-> fs[q] ]
    /\ mods' = Append(mods, [ op |-> "remove", path |-> p, kind |-> fs[p] ])
    /\ UNCHANGED <<phase, root, stack, out, listed, handles, exc, nav, reads>>

ConcMkdir(p) ==
    /\ BetweenPulls
    /\ CanCreate(p)
    /\ fs' = (p :> "dir") @@ fs
    /\ mods' = Append(mods, [ op |-> "create", path |-> p, kind |-> "dir" ])
    /\ UNCHANGED <<phase, root, stack, out, listed, handles, exc, nav, reads>>

ConcTouch(p, k) ==
    /\ BetweenPulls
    /\ CanCreate(p)
    /\ k = "badfile" => Suffix(Last(p)) = "ipynb"
    /\ fs' = (p :> k) @@ fs
    /\ mods' = Append(mods, [ op |-> "create", path |-> p, kind |-> k ])
    /\ UNCHANGED <<phase, root, stack, out, listed, handles, exc, nav, reads>>

NextConc ==
    \/ Next
    \/ \E p \in Paths : ConcRemove(p)
    \/ \E p \in Paths : ConcMkdir(p)
    \/ \E p \in Paths, k \in {"file", "badfile"} : ConcTouch(p, k)

SpecConc == Init /\ [][NextConc]_vars

\* ------------------------------------------------------------------ claims
\* What the tree holds, read from the filesystem (not from the code).
IsNotebookFile(p) == is_file(p) /\ Suffix(Last(p)) = "ipynb"
DirsUnderRoot == { p \in DOMAIN fs : is_dir(p) /\ IsPrefix(root, p) }
NotebooksUnderRoot ==
    { p \in DOMAIN fs : IsNotebookFile(p) /\ IsPrefix(root, p) /\ p # root }

\* The output paths the layout prescribes.
IndexPathOf(d) ==
    << <<"tree">> >> \o RelativeTo(d, root) \o << <<"index", "html">> >>
RenderPathOf(n) ==
    << <<"render">> >> \o Parent(RelativeTo(n, root))
        \o << StemOfName(Last(n)) \o <<"html">> >>

Indexes == { i \in 1..Len(out) : out[i].kind = "index" }
Renders == { i \in 1..Len(out) : out[i].kind = "render" }

\* C1: when the sequence has ended normally, every directory reachable from
\* the export root has exactly one index artifact, at tree/<its path relative
\* to the root>/index.html.
C1_EveryDirectoryIndexedOnce ==
    (phase = "done" /\ is_dir(root)) =>
        \A d \in DirsUnderRoot :
            Cardinality({ i \in Indexes : out[i].path = IndexPathOf(d) }) = 1

\* C2: when the sequence has ended normally, every notebook under the export
\* root has exactly one rendered artifact, a rendering of that notebook at
\* render/<its relative path with the file name replaced by stem.html>.
C2_EveryNotebookRenderedOnce ==
    (phase = "done" /\ is_dir(root)) =>
        \A n \in NotebooksUnderRoot :
            Cardinality({ i \in Renders : out[i].path = RenderPathOf(n)
                                          /\ out[i].src = n }) = 1

\* The directory an artifact belongs to, relative to the export root, its
\* depth below the root's index, and the node name it was listed under.
DirOf(art) == SubSeq(art.path, 2, Len(art.path) - 1)
ParentDirOf(art) == IF art.kind = "index" THEN Parent(DirOf(art)) ELSE DirOf(art)
Level(art) == IF art.kind = "index" THEN Len(DirOf(art)) ELSE Len(DirOf(art)) + 1
NodeName(art) == IF art.kind = "index" THEN Last(DirOf(art)) ELSE Last(art.path)

\* out[j] is in the block of the index out[s]: nothing between them belongs
\* to the directory of out[s] or to one above it.
InBlock(s, j) ==
    /\ s < j
    /\ out[s].kind = "index"
    /\ \A k \in (s + 1)..j : Level(out[k]) > Level(out[s])

\* C3: the sequence is a depth-first pre-order.  It starts with the root's
\* index; every later artifact is a child of an index emitted before it, with
\* only artifacts of that directory's subtree in between (index before
\* contents, one subdirectory's artifacts contiguous); and the children of one
\* directory come in ascending node-name order.
C3_PreOrder ==
    /\ out # <<>> => (out[1].kind = "index" /\ Level(out[1]) = 0)
    /\ \A j \in 2..Len(out) :
        \E s \in 1..(j - 1) :
            /\ InBlock(s, j)
            /\ Level(out[j]) = Level(out[s]) + 1
            /\ ParentDirOf(out[j]) = DirOf(out[s])
    /\ \A s \in Indexes :
        \A i, j \in 1..Len(out) :
            ( /\ i < j /\ InBlock(s, i) /\ InBlock(s, j)
              /\ Level(out[i]) = Level(out[s]) + 1
              /\ Level(out[j]) = Level(out[s]) + 1 )
            => ~NameLess(NodeName(out[j]), NodeName(out[i]))

\* C3 witness: a finished run in which a subdirectory's index and an artifact
\* inside it are followed by an artifact of its next sibling.
C3_Witness ==
    /\ phase = "done"
    /\ \E s, j, k \in 1..Len(out) :
        /\ s < j /\ j < k
        /\ out[s].kind = "index" /\ Level(out[s]) = 1
        /\ InBlock(s, j)
        /\ Level(out[k]) = 1

\* C4: classification is deterministic: whatever order iterdir() enumerates
\* the entries in, path_to_content returns one and the same value for the
\* path a frame is about to classify.
C4_Deterministic ==
    (phase = "running" /\ Top.pc = "start") =>
        Cardinality({ r.ret : r \in Classified(Top) }) = 1

\* The entries of a directory that belong in the content model.
IsContent(p) == is_dir(p) \/ IsNotebookFile(p)

\* C5: a file that is neither a directory nor a notebook is left out without
\* an error: classifying a directory returns a directory node with one child
\* per notebook and subdirectory in it.
C5_IgnorableFilesExcluded ==
    (phase = "running" /\ Top.pc = "start" /\ is_dir(Top.path)) =>
        \A r \in Classified(Top) :
            /\ r.ret.type = "directory"
            /\ Len(r.ret.content) =
                 Cardinality({ q \in Entries(Top.path) : IsContent(q) })

\* The directories whose index has been yielded.
Yielded == { root \o DirOf(out[i]) : i \in Indexes }

\* C6 as claimed: the walk is lazy: the only directories whose entries have
\* been listed are those whose index has been yielded.
C6_LazyWalk ==
    (phase = "suspended" /\ is_dir(root)) => listed \subseteq Yielded

\* C6 amended: classification descends: whenever the generator is suspended,
\* the directories listed so far are the directories whose index has been
\* yielded together with every directory below them (after the root's index:
\* every directory of the tree).
C6_WholeSubtreeListed ==
    phase = "suspended" =>
        listed = { d \in DOMAIN fs :
                     is_dir(d) /\ \E y \in Yielded : is_dir(y) /\ IsPrefix(y, d) }

\* C6 witness: only the root's index has been yielded and a directory below
\* the root has been listed already.
C6_Witness ==
    /\ phase = "suspended" /\ Len(out) = 1 /\ is_dir(root)
    /\ \E d \in listed : d # root

\* The notebook the innermost frame is about to render cannot be rendered.
RenderWillFail ==
    /\ phase = "running" /\ stack # <<>> /\ Top.pc = "read"
    /\ fs[Top.notebook_path] = "badfile"

\* The innermost frame is about to open a notebook path that is no file.
OpenWillFail ==
    /\ phase = "running" /\ stack # <<>>
    /\ Top.pc \in {"index", "render", "loop"}
    /\ Top.contents.type = "directory"
    /\ Top.i < Len(Top.contents.content)
    /\ Top.contents.content[Top.i + 1].type = "notebook"
    /\ ~is_file(ReplaceHtml(Top.contents.content[Top.i + 1].path))

\* The innermost frame holds a notebook open and is about to read it.
Reading == phase = "running" /\ stack # <<>> /\ Top.pc = "opened"

\* C7: a notebook's failure reaches the caller on the pull that would have
\* produced its artifact, from whatever depth; nothing yielded is changed or
\* retracted; and after a failure no artifact follows.
C7_FirstFailureHalts ==
    [][ /\ IsPrefix(out, out')
        /\ (RenderWillFail \/ OpenWillFail)
              => (phase' = "failed" /\ exc' # "" /\ out' = out)
        /\ Reading => \/ phase' = "failed" /\ exc' # "" /\ out' = out
                      \/ /\ phase' = "running" /\ out' = out
                         /\ stack'[Len(stack')].pc = "read"
        /\ phase = "failed" => (phase' = "failed" /\ out' = out) ]_vars

\* C7 witness: a notebook inside a subdirectory failed after the root's and
\* the subdirectory's index had been yielded.
C7_Witness ==
    /\ phase = "failed"
    /\ exc \in {"ReadError", "RenderError"}
    /\ Len(out) >= 2
    /\ out[Len(out)].kind = "index" /\ Level(out[Len(out)]) = 1

\* C8: an export root that is no directory fails before any artifact.
C8_InvalidRootYieldsNothing ==
    (phase # "setup" /\ ~is_dir(root)) => out = <<>>

\* C9: every index gets the breadcrumbs and the title of its directory's path
\* relative to the export root.
C9_NavigationFromRelativePath ==
    is_dir(root) =>
        \A i \in Indexes :
            /\ out[i].breadcrumbs = generate_breadcrumbs(DirOf(out[i]))
            /\ out[i].page_title = generate_page_title(DirOf(out[i]))

\* The last k elements of a sequence (all of them when it has fewer).
LastK(s, k) == IF Len(s) <= k THEN s ELSE SubSeq(s, Len(s) - k + 1, Len(s))
Titled == nav.page_title # NoTitle
TitleOf(segments) ==
    IF segments = <<>> THEN Home ELSE [ text |-> segments, slash |-> TRUE ]

\* C10 as claimed: the title is the last min(n, 2) segments and a trailing
\* slash; the sentinel for the empty path.
C10_LastTwoSegments ==
    Titled => nav.page_title = TitleOf(LastK(nav.arg, 2))

\* C10 amended: the title is all n segments when n <= 3 and the last 2 when
\* n > 3, with a trailing slash; the sentinel for the empty path.
C10_LastTwoBeyondThree ==
    Titled => nav.page_title =
                TitleOf(IF Len(nav.arg) <= 3 THEN nav.arg ELSE LastK(nav.arg, 2))

\* C10 witness: a title was derived for a path of four segments.
C10_Witness == Titled /\ Len(nav.arg) = 4 /\ Len(nav.page_title.text) = 2

\* The breadcrumbs have been derived for nav.arg.
Crumbed == nav.breadcrumbs # <<>>

\* One segment as it stands in a link: each of its components quoted.
EscapedSegment(name) == [ j \in 1..Len(name) |-> Quote(name[j]) ]

\* C11: for a path of n segments the breadcrumbs are n + 1 entries: the
\* site-root link under the empty label, then for every segment an entry
\* labelled with it whose link is the link before it plus that one segment,
\* so the base URL, the tree prefix and the segments up to and including it.
C11_BreadcrumbsOnePerSegment ==
    Crumbed =>
        /\ Len(nav.breadcrumbs) = Len(nav.arg) + 1
        /\ nav.breadcrumbs[1] =
             [ link |-> << <<"base_url">>, <<"voila">>, <<"tree">> >>,
               label |-> <<"">> ]
        /\ \A i \in 1..Len(nav.arg) :
            /\ nav.breadcrumbs[i + 1].label = nav.arg[i]
            /\ nav.breadcrumbs[i + 1].link =
                 Append(nav.breadcrumbs[i].link, EscapedSegment(nav.arg[i]))

\* C11 witness: the breadcrumbs of a path of three segments, one of which
\* needs escaping.
C11_Witness ==
    /\ Crumbed /\ Len(nav.arg) = 3
    /\ \E i \in 1..3 : EscapedSegment(nav.arg[i]) # nav.arg[i]

\* The children of a node are in ascending order of their name field.
Ascending(content) ==
    \A i, j \in 1..Len(content) :
        i < j => ~NameLess(content[j].name, content[i].name)

\* The node and every Directory node below it have their children ascending.
RECURSIVE SortedDeep(_)
SortedDeep(node) ==
    node.type = "directory" =>
        /\ Ascending(node.content)
        /\ \A i \in 1..Len(node.content) : SortedDeep(node.content[i])

\* C12: in every Directory node path_to_content returns, at every depth, the
\* children are in ascending order of node name, and the listing each index
\* artifact carries is that sequence: the tree the driver holds for a
\* directory and the tree it hands to the index template are sorted
\* throughout.
C12_ChildrenSortedByName ==
    /\ \A k \in 1..Len(stack) : SortedDeep(stack[k].contents)
    /\ \A i \in Indexes : SortedDeep(out[i].contents)

\* C12 witness: an index artifact whose listing holds a subdirectory with two
\* children of different names.
C12_Witness ==
    \E i \in Indexes :
        /\ out[i].contents.type = "directory"
        /\ \E c \in 1..Len(out[i].contents.content) :
            LET sub == out[i].contents.content[c]
            IN  /\ sub.type = "directory"
                /\ Len(sub.content) >= 2
                /\ NameLess(sub.content[1].name, sub.content[2].name)

\* A directory that holds no entry.
EmptyDir(d) == is_dir(d) /\ Entries(d) = {}

\* The innermost frame is at work on an empty directory.
ExportingEmpty == phase = "running" /\ stack # <<>> /\ EmptyDir(Top.path)

\* Every classification of an empty directory, relative to any of its
\* ancestors, is a Directory node without children.
EmptyIsDirectoryNode ==
    \A d \in DOMAIN fs :
        EmptyDir(d) =>
            \A k \in 0..Len(d) :
                \A o \in path_to_content(d, SubSeq(d, 1, k)) :
                    /\ o.ret.type = "directory"
                    /\ o.ret.content = <<>>

\* What a frame on an empty directory does: from its start it yields one
\* index page with an empty listing; resumed after that page it returns,
\* yielding nothing more and raising nothing, which ends the sequence when
\* the frame is the outermost one.
EmptyExportStep ==
    ExportingEmpty =>
        \/ /\ Top.pc = "start"
           /\ phase' = "suspended"
           /\ Len(out') = Len(out) + 1
           /\ out'[Len(out')].kind = "index"
           /\ out'[Len(out')].contents.type = "directory"
           /\ out'[Len(out')].contents.content = <<>>
        \/ /\ Top.pc = "index"
           /\ out' = out
           /\ exc' = exc
           /\ Len(stack') = Len(stack) - 1
           /\ phase' = IF Len(stack) = 1 THEN "done" ELSE "running"

ClassifiedFrom(frame, node) ==
    { q \in Entries(frame.path) :
        /\ IsNotebookFile(q)
        /\ NotebookNode(q, frame.relative_to) = node }

\* C14: the rewrite of an output path back to a source path is a round trip:
\* when the driver takes a notebook child, the source path it derives from
\* the node's output path, which is the path it opens and renders, is the
\* path of the notebook file that was classified into that node, for every
\* name and every export root.
C14_SourcePathRoundTrip ==
    (AtLoopHead /\ Top.i < Len(Top.contents.content) /\ NextFile.type = "notebook") =>
        \A q \in ClassifiedFrom(Top, NextFile) : ReplaceHtml(NextFile.path) = q

\* A tree and a history the driver has no trouble with of its own: the export
\* root is the working directory, every directory has a name without a dot,
\* every file is a well-formed notebook whose stem has no '.html', and every
\* change made during the export was the removal of such a directory.
PlainEntry(p, kind) ==
    \/ kind = "dir" /\ Len(Last(p)) = 1
    \/ kind = "file" /\ Last(p) = <<"n", "ipynb">>

PlainExport ==
    /\ root = <<>>
    /\ \A p \in DOMAIN fs : p # <<>> => PlainEntry(p, fs[p])
    /\ \A m \in 1..Len(mods) :
        /\ mods[m].op = "remove" /\ mods[m].kind = "dir"
        /\ PlainEntry(mods[m].path, mods[m].kind)

\* Without a change during the export such a tree is exported to the end.
PlainExportCompletes == (PlainExport /\ mods = <<>>) => phase # "failed"

\* C15: the classification is taken afresh when a directory is reached, so a
\* change made under a directory after its parent was classified, its removal
\* included, leaves the export inconsistent but not corrupted: every frame
\* the traversal has entered has emitted the index of a directory listing,
\* and the traversal completes instead of failing.
C15_ChangedTreeStillExported ==
    (PlainExport /\ mods # <<>>) =>
        /\ phase # "failed"
        /\ \A k \in 1..Len(stack) :
            stack[k].pc # "start" => stack[k].contents.type = "directory"

\* C16: the notebook file handle is scoped: at most one handle is open at any
\* time, it is released before the notebook is rendered and its artifact
\* yielded, and whenever the sequence is suspended at a yield, has finished,
\* or has ended in a failure (of the read and of the render included), no
\* handle is open.
C16_HandleScoped ==
    /\ Cardinality(handles) <= 1
    /\ phase \in {"suspended", "done", "failed"} => handles = {}
    /\ handles # {} => /\ phase = "running"
                       /\ Top.pc = "opened"
                       /\ handles = {Top.notebook_path}

\* C16 witness: the read of a notebook that had been opened failed, and the
\* failure has reached the caller.
C16_Witness ==
    /\ phase = "failed" /\ exc = "ReadError"
    /\ reads # <<>>
    /\ handles = {}

\* The source paths of the notebook artifacts pulled so far, in order.
RECURSIVE SrcsUpTo(_)
SrcsUpTo(n) ==
    IF n = 0 THEN <<>>
    ELSE IF out[n].kind = "render" THEN Append(SrcsUpTo(n - 1), out[n].src)
    ELSE SrcsUpTo(n - 1)

RenderedSrcs == SrcsUpTo(Len(out))

\* C17: rendering is on demand: a notebook is opened only by the pull that
\* is to yield its artifact.  Between pulls, and at the end, the notebooks
\* opened are exactly the notebooks of the artifacts pulled, in order, so
\* after k artifacts at most k notebooks were read; within a pull at most the
\* one notebook this pull works on has been opened beyond them.
C17_RenderOnDemand ==
    /\ phase \in {"setup", "suspended", "done"} => reads = RenderedSrcs
    /\ phase = "running" =>
        \/ reads = RenderedSrcs /\ Top.pc \notin {"opened", "read"}
        \/ reads = Append(RenderedSrcs, Top.notebook_path)
              /\ Top.pc \in {"opened", "read"}
    /\ phase = "failed" =>
        \/ reads = RenderedSrcs
        \/ Front(reads) = RenderedSrcs /\ exc \in {"ReadError", "RenderError"}
    /\ phase \in {"suspended", "done"} => Len(reads) <= Len(out)

\* C17 witness: the caller holds the artifact of one notebook and has not
\* pulled again, and the next child of the directory is a notebook too, not
\* opened yet.
C17_Witness ==
    /\ phase = "suspended" /\ Top.pc = "render"
    /\ Len(reads) = 1
    /\ Top.i < Len(Top.contents.content)
    /\ NextFile.type = "notebook"

\* No notebook of the tree fails to be read or rendered.
NoFailingNotebook == \A p \in DOMAIN fs : fs[p] # "badfile"

\* C18: for every tree under an export root that is a directory, with no
\* failing notebook, the sequence is finite and runs to its end: the pulls
\* never end in a failure, and at the end the caller has received one
\* artifact for each directory and each notebook below the root, the root
\* included.
C18_EndsAfterOnePerNode ==
    (is_dir(root) /\ NoFailingNotebook) =>
        /\ phase # "failed"
        /\ phase = "done" =>
            Len(out) = Cardinality(DirsUnderRoot) + Cardinality(NotebooksUnderRoot)

\* C19: no two artifacts of one sequence have the same output path, for
\* every tree.
C19_OutputPathsUnique ==
    \A i, j \in 1..Len(out) : out[i].path = out[j].path => i = j

====
